---- MODULE Spec2Model ----
(***************************************************************************)
(* Vimshottari dasha engine (src/src/vedic_astrology_core/dasha/           *)
(* vimshottari.py): starting lord and balance from the Moon's longitude,   *)
(* the top-level period loop, the recursive subdivision and the point      *)
(* queries.                                                                *)
(*                                                                         *)
(* Units.  A duration in years is an integer count of 1/YearDen year, so   *)
(* that every product and quotient the engine forms (balance fraction,     *)
(* years * allocation / 120 down to the deepest level) is exact.  An       *)
(* instant is an integer count of the clock's resolution, one day here (a  *)
(* microsecond in datetime); timedelta's rounding of a duration to that    *)
(* resolution (round half to even) is kept, so that a positive duration    *)
(* below half the resolution becomes no time at all, as it does in the     *)
(* code.  A longitude is an integer count of 1/LonGrid of a mansion width. *)
(***************************************************************************)
EXTENDS Integers, Sequences, FiniteSets, TLC

\* ---------------------------------------------------------------- bounds
\* positions distinguished inside one mansion (longitude resolution)
LonGrid == 4
\* total_years inputs are multiples of 1/TotalGrid year
TotalGrid == 3
\* deepest nesting level requested from compute_vimshottari_nested_periods
MaxDepth == 2

\* ------------------------------------------------------------- constants
VIMSHOTTARI_SEQUENCE ==
  <<"Ketu", "Venus", "Sun", "Moon", "Mars", "Rahu", "Jupiter", "Saturn", "Mercury">>

\* Ketu is given 8 years
VIMSHOTTARI_YEARS_ketu_8 ==
  [l \in {"Ketu", "Venus", "Sun", "Moon", "Mars", "Rahu", "Jupiter", "Saturn", "Mercury"} |->
     CASE l = "Ketu" -> 8 [] l = "Venus" -> 20 [] l = "Sun" -> 6
       [] l = "Moon" -> 10 [] l = "Mars" -> 7 [] l = "Rahu" -> 18
       [] l = "Jupiter" -> 16 [] l = "Saturn" -> 19 [] l = "Mercury" -> 17]

VIMSHOTTARI_YEARS ==
  [l \in {"Ketu", "Venus", "Sun", "Moon", "Mars", "Rahu", "Jupiter", "Saturn", "Mercury"} |->
     CASE l = "Ketu" -> 7 [] l = "Venus" -> 20 [] l = "Sun" -> 6
       [] l = "Moon" -> 10 [] l = "Mars" -> 7 [] l = "Rahu" -> 18
       [] l = "Jupiter" -> 16 [] l = "Saturn" -> 19 [] l = "Mercury" -> 17]

\* 365.2425 days, as the fraction SIDEREAL_YEAR_DAYS / DayDen
SIDEREAL_YEAR_DAYS == 3652425

DayDen == 10000

\* the literal 120.0 that expand_period divides by
CycleYears == 120

\* the last mansion is given to Ketu
NAKSHATRAS_last_ketu ==
  <<"KETU", "VENUS", "SUN", "MOON", "MARS", "RAHU", "JUPITER", "SATURN", "MERCURY",
    "KETU", "VENUS", "SUN", "MOON", "MARS", "RAHU", "JUPITER", "SATURN", "MERCURY",
    "KETU", "VENUS", "SUN", "MOON", "MARS", "RAHU", "JUPITER", "SATURN", "KETU">>

\* the ruling planet (enum member name) of each of the 27 mansions
NAKSHATRAS ==
  <<"KETU", "VENUS", "SUN", "MOON", "MARS", "RAHU", "JUPITER", "SATURN", "MERCURY",
    "KETU", "VENUS", "SUN", "MOON", "MARS", "RAHU", "JUPITER", "SATURN", "MERCURY",
    "KETU", "VENUS", "SUN", "MOON", "MARS", "RAHU", "JUPITER", "SATURN", "MERCURY">>

\* ------------------------------------------------------------ arithmetic
RECURSIVE Pow(_, _)
Pow(b, e) == IF e <= 0 THEN 1 ELSE b * Pow(b, e - 1)

\* one year, in the unit durations are counted in
YearDen == LonGrid * TotalGrid * Pow(CycleYears, MaxDepth - 1)

Min(a, b) == IF a <= b THEN a ELSE b

\* 360 / 27 degrees, in longitude units
nak_span == LonGrid

\* quotient q and remainder r of f * s by d, for 0 <= f < d, without
\* forming the product f * s
MulDiv(f, s, d) ==
  LET hi   == f * (s \div 2048)
      rest == (hi % d) * 2048 + f * (s % 2048)
  IN  [q |-> (hi \div d) * 2048 + (rest \div d), r |-> rest % d]

\* datetime.timedelta(days = years * SIDEREAL_YEAR_DAYS): the duration
\* rounded to the clock's resolution, ties to the even count
timedelta(years) ==
  LET w    == years \div YearDen
      md   == MulDiv(years % YearDen, SIDEREAL_YEAR_DAYS, YearDen)
      n    == w * SIDEREAL_YEAR_DAYS + md.q
      q    == n \div DayDen
      x    == 2 * (n % DayDen) - DayDen
      side == IF x < 0 - 1 THEN 0 - 1
              ELSE IF x > 0 THEN 1
              ELSE IF x = 0 THEN (IF md.r = 0 THEN 0 ELSE 1)
              ELSE IF 2 * md.r < YearDen THEN 0 - 1
              ELSE IF 2 * md.r > YearDen THEN 1 ELSE 0
  IN  IF side < 0 THEN q
      ELSE IF side > 0 THEN q + 1
      ELSE IF q % 2 = 0 THEN q ELSE q + 1

\* ------------------------------------------------------ starting lord
\* the longitude is first brought into the circle, and never refused
get_nakshatra_wrapping(longitude) ==
  LET lon == longitude % (Len(NAKSHATRAS) * nak_span)
  IN  [raised |-> "",
       index |-> lon \div nak_span,
       lord |-> NAKSHATRAS[(lon \div nak_span) + 1],
       degrees_in_nakshatra |-> lon % nak_span]

\* astrology.chart.get_nakshatra: the mansion holding the longitude, its
\* ruling planet and the distance already travelled inside it; a longitude
\* outside [0, 360) is refused
get_nakshatra(longitude) ==
  IF longitude < 0 \/ longitude >= Len(NAKSHATRAS) * nak_span
  THEN [raised |-> "InvalidLongitudeError", index |-> 0 - 1, lord |-> "",
        degrees_in_nakshatra |-> 0]
  ELSE [raised |-> "",
        index |-> longitude \div nak_span,
        lord |-> NAKSHATRAS[(longitude \div nak_span) + 1],
        degrees_in_nakshatra |-> longitude % nak_span]

\* Enum member -> lord.name.title()
normalize_lord(lord) ==
  CASE lord = "KETU" -> "Ketu" [] lord = "VENUS" -> "Venus" [] lord = "SUN" -> "Sun"
    [] lord = "MOON" -> "Moon" [] lord = "MARS" -> "Mars" [] lord = "RAHU" -> "Rahu"
    [] lord = "JUPITER" -> "Jupiter" [] lord = "SATURN" -> "Saturn"
    [] lord = "MERCURY" -> "Mercury" [] OTHER -> lord

get_vimshottari_start_lord(moon_longitude) ==
  normalize_lord(get_nakshatra(moon_longitude).lord)

\* the fraction already travelled is used in place of the fraction left
balance_years_elapsed(moon_longitude) ==
  LET nak  == get_nakshatra(moon_longitude)
      lord == normalize_lord(nak.lord)
  IN  (VIMSHOTTARI_YEARS[lord] * YearDen * nak.degrees_in_nakshatra) \div nak_span

\* lines 61-68
balance_years_in_start_dasha(moon_longitude) ==
  LET nak       == get_nakshatra(moon_longitude)
      lord      == normalize_lord(nak.lord)
      remaining == nak_span - nak.degrees_in_nakshatra
  IN  (VIMSHOTTARI_YEARS[lord] * YearDen * remaining) \div nak_span

\* VIMSHOTTARI_SEQUENCE.index(lord), counted from 0
SequenceIndex(lord) ==
  CHOOSE k \in 0..(Len(VIMSHOTTARI_SEQUENCE) - 1) : VIMSHOTTARI_SEQUENCE[k + 1] = lord

InSequence(lord) == \E k \in 1..Len(VIMSHOTTARI_SEQUENCE) : VIMSHOTTARI_SEQUENCE[k] = lord

\* the message leaves the offending value out
unknown_lord_error_unnamed(lord) == "ValueError: Unknown Vimshottari lord"

\* line 92: ValueError(f"Unknown Vimshottari lord: {start_lord}")
unknown_lord_error(lord) == "ValueError: Unknown Vimshottari lord: " \o lord

\* only a negative depth is refused
depth_rejected_negative(d) == d < 0

\* line 165: if depth < 1
depth_rejected(d) == d < 1

\* the record is built with its end in the place of its start
DashaPeriod_start_is_end(lord, start, end, years, balance_years) ==
  [lord |-> lord, start |-> end, end |-> end, years |-> years,
   balance_years |-> balance_years]

\* lines 38-44: the frozen dataclass
DashaPeriod(lord, start, end, years, balance_years) ==
  [lord |-> lord, start |-> start, end |-> end, years |-> years,
   balance_years |-> balance_years]

Years(n) == n * YearDen

\* the balance is ignored
first_years_total(balance_years, remaining) == remaining

\* the larger of the two is taken
first_years_max(balance_years, remaining) ==
  IF balance_years >= remaining THEN balance_years ELSE remaining

\* the first period takes the whole balance, whatever span was asked for
first_years_unclamped(balance_years, remaining) == balance_years

\* line 101: first_years = min(balance_years, remaining)
first_years_of(balance_years, remaining) == Min(balance_years, remaining)

\* the step is taken three lords at a time
loop_lord_by_three(idx, step) ==
  VIMSHOTTARI_SEQUENCE[((idx + 3 * step) % Len(VIMSHOTTARI_SEQUENCE)) + 1]

\* the cycle is counted from the head of the sequence
loop_lord_from_head(idx, step) ==
  VIMSHOTTARI_SEQUENCE[(step % Len(VIMSHOTTARI_SEQUENCE)) + 1]

\* line 117: the lord of the step-th period after the first
loop_lord(idx, step) ==
  VIMSHOTTARI_SEQUENCE[((idx + step) % Len(VIMSHOTTARI_SEQUENCE)) + 1]

\* a later period takes one allocation more than is left to give
loop_years_overshoot(lord, remaining) == remaining + Years(VIMSHOTTARI_YEARS[lord])

\* every later period takes its lord's full allocation
loop_years_unclamped(lord, remaining) == Years(VIMSHOTTARI_YEARS[lord])

\* line 118: years = min(VIMSHOTTARI_YEARS[lord], remaining)
loop_years(lord, remaining) == Min(Years(VIMSHOTTARI_YEARS[lord]), remaining)

\* lines 102, 119, 182, 194: end = start + timedelta(days=years * SIDEREAL_YEAR_DAYS)
period_end(start, years) == start + timedelta(years)

\* the loop over the sub-lords stops one short
offsets_end_short == Len(VIMSHOTTARI_SEQUENCE) - 1

\* line 190: range(len(VIMSHOTTARI_SEQUENCE))
offsets_end == Len(VIMSHOTTARI_SEQUENCE)

\* the sub-cycle opens with the lord after the parent's own
sub_lord_at_next(start_index, offset) ==
  VIMSHOTTARI_SEQUENCE[((start_index + offset + 1) % Len(VIMSHOTTARI_SEQUENCE)) + 1]

\* line 191: the offset-th sub-lord of a period whose lord has index start_index
sub_lord_at(start_index, offset) ==
  VIMSHOTTARI_SEQUENCE[((start_index + offset) % Len(VIMSHOTTARI_SEQUENCE)) + 1]

\* the share is taken of a 100-year cycle
sub_years_of_hundred(years, sub_lord) == (years * VIMSHOTTARI_YEARS[sub_lord]) \div 100

\* line 192: sub_years = years * (VIMSHOTTARI_YEARS[sub_lord] / 120.0)
sub_years_of(years, sub_lord) == (years * VIMSHOTTARI_YEARS[sub_lord]) \div CycleYears

\* the fall-through answers with the first entry
first_entry(list) == list[1]

\* lines 150, 248: periods[-1]
last_entry(list) == list[Len(list)]

\* ----------------------------------------------------------------- state
VARIABLES
  pc,              \* "idle", "while", "scan", "for", "done", "answered"
  caller,          \* the public function whose call is running
  birth_datetime, moon_longitude, total_years, start_lord, depth, target_datetime,
  idx, current, remaining, step, periods,
  maha_next, results,
  lord_result, chain_result,
  raised           \* "" or the exception that ended the call

\* the state of the one call followed step by step
engine_vars ==
  <<pc, caller, birth_datetime, moon_longitude, total_years, start_lord, depth,
    target_datetime, idx, current, remaining, step, periods, maha_next, results,
    lord_result, chain_result, raised>>

\* objects that calls running at the same time can all reach, and the calls
VARIABLES
  tables,          \* the module's VIMSHOTTARI_SEQUENCE list and VIMSHOTTARI_YEARS dict
  supplied,        \* a nested list its caller passes to get_vimshottari_chain_at
  call             \* each concurrent call's arguments, locals and answer

cvars == <<tables, supplied, call>>

vars == <<engine_vars, cvars>>

None == "None"

\* ---------------------------------------------------------------- inputs
Births == {0, 730485}

\* the mansions longitudes are drawn from: the first nine (one per lord) and
\* the last of the circle; every position inside each
Mansions == (0..8) \cup {26}

Longitudes == {m * nak_span + g : m \in Mansions, g \in 0..(nak_span - 1)}

\* every position of the circle
CircleLongitudes == 0..(Len(NAKSHATRAS) * nak_span - 1)

\* longitudes outside [0, 360): just below 0, and 360 itself
BadLongitudes == {0 - 1, Len(NAKSHATRAS) * nak_span}

\* a positive span below half the clock's resolution
TinyYears == 1

\* total_years, in TotalGrid-ths of a year: negative, zero, below every
\* balance, between, the full cycle, and beyond it; and the tiny span
TotalYearsInputs ==
  {(n * YearDen) \div TotalGrid :
     n \in {0 - TotalGrid, 0, 1, 2 * TotalGrid + 1, 27 * TotalGrid + 1,
            CycleYears * TotalGrid, 130 * TotalGrid - 1}} \cup {TinyYears}

\* the spans a nested call of depth d is made with: the year grid resolves
\* no subdivision of the tiny span
NestedTotalYears(d) ==
  IF d <= 1 THEN TotalYearsInputs ELSE TotalYearsInputs \ {TinyYears}

StartLordInputs == {None, "Venus", "Sun", "Pluto"}


\* ------------------------------------------- compute_vimshottari_periods
\* lines 88-113: resolve and validate the starting lord, emit the first
\* (balance) period
PeriodsEntry(who, birth, longitude, total, lord_arg) ==
  LET lookup        == get_nakshatra(longitude).raised
      sl            == IF lord_arg = None THEN get_vimshottari_start_lord(longitude)
                       ELSE lord_arg
      \* the exception that ends the call before line 96, in the order of
      \* lines 88-94: the lookup of the starting lord, the check of the
      \* lord, the lookup of the balance
      error         == IF lord_arg = None /\ lookup # "" THEN lookup
                       ELSE IF ~InSequence(sl) THEN unknown_lord_error(sl)
                       ELSE lookup
      balance_years == balance_years_in_start_dasha(longitude)
      first_years   == first_years_of(balance_years, total)
      end           == period_end(birth, first_years)
  IN  /\ caller' = who
      /\ birth_datetime' = birth /\ moon_longitude' = longitude
      /\ total_years' = total /\ start_lord' = lord_arg
      /\ IF error # ""
         THEN /\ raised' = error
              /\ pc' = "done"
              /\ UNCHANGED <<idx, current, remaining, step, periods>>
         ELSE /\ raised' = ""
              /\ idx' = SequenceIndex(sl)
              /\ periods' = <<DashaPeriod(sl, birth, end, first_years, balance_years)>>
              /\ current' = end
              /\ remaining' = total - first_years
              /\ step' = 1
              /\ pc' = "while"

\* -------------------------------------------- get_vimshottari_start_lord
\* lines 47-50, called on its own
start_lord_of(longitude) ==
  /\ pc = "idle"
  /\ caller' = "get_vimshottari_start_lord"
  /\ moon_longitude' = longitude
  /\ raised' = get_nakshatra(longitude).raised
  /\ lord_result' = IF get_nakshatra(longitude).raised # "" THEN lord_result
                    ELSE get_vimshottari_start_lord(longitude)
  /\ pc' = "done"
  /\ UNCHANGED <<birth_datetime, total_years, start_lord, depth, target_datetime, idx,
                 current, remaining, step, periods, maha_next, results, chain_result>>
  /\ UNCHANGED cvars

compute_vimshottari_periods(birth, longitude, total, lord_arg) ==
  /\ pc = "idle"
  /\ PeriodsEntry("compute_vimshottari_periods", birth, longitude, total, lord_arg)
  /\ UNCHANGED <<depth, target_datetime, maha_next, results, lord_result, chain_result>>
  /\ UNCHANGED cvars

\* lines 116-131: one iteration of the while loop
WhileStep ==
  /\ pc = "while" /\ remaining > 0
  /\ LET lord  == loop_lord(idx, step)
         years == loop_years(lord, remaining)
         end   == period_end(current, years)
     IN  /\ periods' = Append(periods, DashaPeriod(lord, current, end, years, years))
         /\ current' = end
         /\ remaining' = remaining - years
         /\ step' = step + 1
  /\ UNCHANGED <<pc, caller, birth_datetime, moon_longitude, total_years, start_lord,
                 depth, target_datetime, idx, maha_next, results, lord_result,
                 chain_result, raised>>
  /\ UNCHANGED cvars

\* line 133: the loop is over, the list goes back to the caller
WhileExit ==
  /\ pc = "while" /\ remaining <= 0
  /\ pc' = CASE caller = "get_vimshottari_lord_at" -> "scan"
             [] caller = "compute_vimshottari_nested_periods" -> "for"
             [] OTHER -> "done"
  /\ maha_next' = 1
  /\ UNCHANGED <<caller, birth_datetime, moon_longitude, total_years, start_lord, depth,
                 target_datetime, idx, current, remaining, step, periods, results,
                 lord_result, chain_result, raised>>
  /\ UNCHANGED cvars

\* ----------------------------------------------- get_vimshottari_lord_at
\* the for loop's scan: index of the first entry, in list order, whose
\* half-open interval holds t; 0 if the loop falls through
FirstContaining(list, t) ==
  LET hits == {k \in 1..Len(list) : list[k].start <= t /\ t < list[k].end}
  IN  IF hits = {} THEN 0 ELSE CHOOSE k \in hits : \A j \in hits : k <= j

\* lines 142-146: the list is always computed for the full 120 years
get_vimshottari_lord_at(target, birth, longitude) ==
  /\ pc = "idle"
  /\ PeriodsEntry("get_vimshottari_lord_at", birth, longitude, Years(CycleYears), None)
  /\ target_datetime' = target
  /\ UNCHANGED <<depth, maha_next, results, lord_result, chain_result>>
  /\ UNCHANGED cvars

\* lines 147-150: the scan, and the fall-through to the last period
LordAtScan ==
  /\ pc = "scan"
  /\ LET k == FirstContaining(periods, target_datetime)
     IN  lord_result' = IF k # 0 THEN periods[k].lord ELSE last_entry(periods).lord
  /\ pc' = "done"
  /\ UNCHANGED <<caller, birth_datetime, moon_longitude, total_years, start_lord, depth,
                 target_datetime, idx, current, remaining, step, periods, maha_next,
                 results, chain_result, raised>>
  /\ UNCHANGED cvars

\* ------------------------------------ compute_vimshottari_nested_periods
NestedRecord(lords, start, end, years, level) ==
  [lords |-> lords, start |-> start, end |-> end, years |-> years, level |-> level]

RECURSIVE expand_period(_, _, _, _, _)
RECURSIVE ExpandOffsets(_, _, _, _, _, _)

\* lines 176-187: the leaf case, else the loop over the 9 sub-lords
expand_period(start, years, start_index, level, lords_prefix) ==
  IF level = 0
  THEN <<NestedRecord(lords_prefix, start, period_end(start, years), years,
                      Len(lords_prefix))>>
  ELSE ExpandOffsets(start, years, start_index, level, lords_prefix, 0)

\* lines 190-215: the iterations of the for loop from `offset` on, `cur`
\* being the loop's `current`
ExpandOffsets(cur, years, start_index, level, lords_prefix, offset) ==
  IF offset >= offsets_end THEN <<>>
  ELSE LET sub_lord  == sub_lord_at(start_index, offset)
           sub_years == sub_years_of(years, sub_lord)
           sub_start == cur
           sub_end   == period_end(sub_start, sub_years)
           emitted   == IF level = 1
                        THEN <<NestedRecord(Append(lords_prefix, sub_lord), sub_start,
                                            sub_end, sub_years, Len(lords_prefix) + 1)>>
                        ELSE expand_period(sub_start, sub_years, SequenceIndex(sub_lord),
                                           level - 1, Append(lords_prefix, sub_lord))
       IN  emitted \o ExpandOffsets(sub_end, years, start_index, level, lords_prefix,
                                    offset + 1)

\* the record ends where it starts
wrap_period_empty(period) ==
  NestedRecord(<<period.lord>>, period.start, period.start, period.years, 1)

\* lines 219-227: at depth 1 a top-level period is wrapped as it is
wrap_period(period) ==
  NestedRecord(<<period.lord>>, period.start, period.end, period.years, 1)

\* every requested level is subdivided once more
expand_level_full(d) == d

\* line 233: the levels left below a top-level period, depth - 1
expand_level(d) == d - 1

\* lines 165-174: the depth check, then the top-level periods
compute_vimshottari_nested_periods(birth, longitude, d, total) ==
  /\ pc = "idle"
  /\ depth' = d
  /\ results' = <<>>
  /\ IF depth_rejected(d)
     THEN /\ raised' = "ValueError: depth must be >= 1"
          /\ pc' = "done"
          /\ caller' = "compute_vimshottari_nested_periods"
          /\ birth_datetime' = birth /\ moon_longitude' = longitude
          /\ total_years' = total
          /\ UNCHANGED <<start_lord, idx, current, remaining, step, periods>>
     ELSE PeriodsEntry("compute_vimshottari_nested_periods", birth, longitude, total, None)
  /\ UNCHANGED <<target_datetime, maha_next, lord_result, chain_result>>
  /\ UNCHANGED cvars

\* lines 217-235: one iteration of `for period in maha_periods`
NestedFor ==
  /\ pc = "for" /\ maha_next <= Len(periods)
  /\ LET period == periods[maha_next]
     IN  results' =
           IF depth = 1
           THEN Append(results, wrap_period(period))
           ELSE results \o expand_period(period.start, period.years,
                                         SequenceIndex(period.lord), expand_level(depth),
                                         <<period.lord>>)
  /\ maha_next' = maha_next + 1
  /\ UNCHANGED <<pc, caller, birth_datetime, moon_longitude, total_years, start_lord,
                 depth, target_datetime, idx, current, remaining, step, periods,
                 lord_result, chain_result, raised>>
  /\ UNCHANGED cvars

\* line 237
NestedReturn ==
  /\ pc = "for" /\ maha_next > Len(periods)
  /\ pc' = "done"
  /\ UNCHANGED <<caller, birth_datetime, moon_longitude, total_years, start_lord, depth,
                 target_datetime, idx, current, remaining, step, periods, maha_next,
                 results, lord_result, chain_result, raised>>
  /\ UNCHANGED cvars

\* ---------------------------------------------- get_vimshottari_chain_at
\* lines 245-248, on the list the nested call has just returned
get_vimshottari_chain_at(target) ==
  /\ pc = "done" /\ caller = "compute_vimshottari_nested_periods" /\ raised = ""
  /\ target_datetime' = target
  /\ LET k == FirstContaining(results, target)
     IN  chain_result' = IF k # 0 THEN results[k].lords ELSE last_entry(results).lords
  /\ caller' = "get_vimshottari_chain_at"
  /\ pc' = "done"
  /\ UNCHANGED <<birth_datetime, moon_longitude, total_years, start_lord, depth, idx,
                 current, remaining, step, periods, maha_next, results, lord_result,
                 raised>>
  /\ UNCHANGED cvars

\* ------------------------------------------------------- enumerated calls
\* longitudes the nested calls are made with: three of the mansions, at every
\* position inside the mansion
NestedLongitudes == {lon \in Longitudes : (lon \div nak_span) \in {0, 5, 26}}

Depths == 0..MaxDepth

\* target instants of get_vimshottari_lord_at, relative to the birth: just
\* before it, on it, around the first boundary, year 8, around the end of
\* the span, and far beyond
LordAtOffsets(longitude) ==
  LET first_end == timedelta(balance_years_in_start_dasha(longitude))
      span_end  == timedelta(Years(CycleYears))
  IN  {0 - 1, 0, first_end - 1, first_end, timedelta(Years(8)), span_end - 1, span_end,
       timedelta(Years(200))}

\* target instants of get_vimshottari_chain_at: the edges of the first and
\* last record and of the records on both sides of the first parent change
ChainTargets(list) ==
  LET block == Pow(Len(VIMSHOTTARI_SEQUENCE), depth - 1)
      picks == {k \in {1, block, block + 1, Len(list)} : k >= 1 /\ k <= Len(list)}
  IN  UNION {{list[k].start - 1, list[k].start, list[k].end - 1, list[k].end} :
              k \in picks}

\* ------------------------------------------------- a call run on its own
RECURSIVE while_loop(_, _, _, _)
\* lines 116-131 run to the end: the periods after the first
while_loop(index, stp, cur, rem) ==
  IF rem <= 0 THEN <<>>
  ELSE LET lord  == loop_lord(index, stp)
           years == loop_years(lord, rem)
           end   == period_end(cur, years)
       IN  <<DashaPeriod(lord, cur, end, years, years)>>
             \o while_loop(index, stp + 1, end, rem - years)

\* lines 88-133 for a valid input, the starting lord left to the longitude
periods_alone(birth, longitude, total) ==
  LET sl            == get_vimshottari_start_lord(longitude)
      balance_years == balance_years_in_start_dasha(longitude)
      first_years   == first_years_of(balance_years, total)
      end           == period_end(birth, first_years)
  IN  <<DashaPeriod(sl, birth, end, first_years, balance_years)>>
        \o while_loop(SequenceIndex(sl), 1, end, total - first_years)

RECURSIVE for_loop(_, _, _)
\* lines 217-235 run to the end, from the k-th top-level period on
for_loop(list, d, k) ==
  IF k > Len(list) THEN <<>>
  ELSE (IF d = 1 THEN <<wrap_period(list[k])>>
        ELSE expand_period(list[k].start, list[k].years, SequenceIndex(list[k].lord),
                           expand_level(d), <<list[k].lord>>))
       \o for_loop(list, d, k + 1)

\* lines 165-237 for a valid input
nested_alone(birth, longitude, d, total) ==
  for_loop(periods_alone(birth, longitude, total), d, 1)

\* lines 245-248
chain_alone(target, list) ==
  LET k == FirstContaining(list, target)
  IN  IF k # 0 THEN list[k].lords ELSE last_entry(list).lords

\* ------------------------------------------------------ concurrent calls
\* Two calls run at the same time, as threads of one interpreter do; a step
\* is one call's entry, one iteration of one of its loops, or its return.
Calls == {1, 2}

IdleCall ==
  [pc |-> "idle", op |-> "none", birth |-> 0, longitude |-> 0, total |-> 0,
   depth |-> 0, target |-> 0, idx |-> 0, current |-> 0, remaining |-> 0, step |-> 0,
   periods |-> <<>>, maha_next |-> 0, results |-> <<>>, scan |-> 0, answer |-> <<>>]

ConcurrentLongitudes == {0, 5 * nak_span + 1}

\* the list the callers of get_vimshottari_chain_at hold: the depth-2 list
\* of 8 years from longitude 0.0
SuppliedList == nested_alone(0, 0, 2, Years(8))

\* targets in the first record, in the third, and past the last
ConcurrentTargets ==
  {SuppliedList[1].start, SuppliedList[3].start, SuppliedList[Len(SuppliedList)].end}

\* the iteration consumes the list it walks
scanned_list_popped(list) == IF list = <<>> THEN list ELSE Tail(list)

\* line 245: `for period in nested_periods` leaves the list as it is
scanned_list(list) == list


Init ==
  /\ pc = "idle" /\ caller = "none"
  /\ birth_datetime = 0 /\ moon_longitude = 0 /\ total_years = 0
  /\ start_lord = None /\ depth = 0 /\ target_datetime = 0
  /\ idx = 0 /\ current = 0 /\ remaining = 0 /\ step = 0
  /\ periods = <<>> /\ maha_next = 0 /\ results = <<>>
  /\ lord_result = "" /\ chain_result = <<>> /\ raised = ""
  /\ tables = [SEQUENCE |-> VIMSHOTTARI_SEQUENCE, YEARS |-> VIMSHOTTARI_YEARS]
  /\ supplied = SuppliedList
  /\ call = [p \in Calls |-> IdleCall]

Next ==
  \/ \E lon \in CircleLongitudes \cup BadLongitudes : start_lord_of(lon)
  \/ \E b \in Births, lon \in Longitudes \cup BadLongitudes, ty \in TotalYearsInputs,
          sl \in StartLordInputs :
       compute_vimshottari_periods(b, lon, ty, sl)
  \/ WhileStep
  \/ WhileExit
  \/ \E b \in Births, lon \in Longitudes :
       \E off \in LordAtOffsets(lon) : get_vimshottari_lord_at(b + off, b, lon)
  \/ LordAtScan
  \/ \E b \in Births, lon \in NestedLongitudes \cup BadLongitudes, d \in Depths :
       \E ty \in NestedTotalYears(d) : compute_vimshottari_nested_periods(b, lon, d, ty)
  \/ NestedFor
  \/ NestedReturn
  \/ \E t \in ChainTargets(results) : get_vimshottari_chain_at(t)

Spec == Init /\ [][Next]_vars

\* a call that has entered the while loop goes on running: the interpreter
\* executes the next iteration, or the return
FairSpec == Spec /\ WF_vars(WhileStep) /\ WF_vars(WhileExit)

\* lines 88-113, reading the module's tables as they are when the call runs
call_periods(p, op, birth, longitude, d, total) ==
  /\ call[p].pc = "idle"
  /\ LET nak           == get_nakshatra(longitude)
         sl            == get_vimshottari_start_lord(longitude)
         balance_years == (tables.YEARS[sl] * YearDen
                             * (nak_span - nak.degrees_in_nakshatra)) \div nak_span
         first_years   == first_years_of(balance_years, total)
         end           == period_end(birth, first_years)
         index         == CHOOSE k \in 0..(Len(tables.SEQUENCE) - 1) :
                             tables.SEQUENCE[k + 1] = sl
     IN  call' = [call EXCEPT ![p] =
                    [IdleCall EXCEPT !.pc = "while", !.op = op, !.birth = birth,
                       !.longitude = longitude, !.total = total, !.depth = d,
                       !.idx = index, !.current = end,
                       !.remaining = total - first_years, !.step = 1,
                       !.periods = <<DashaPeriod(sl, birth, end, first_years,
                                                 balance_years)>>]]
  /\ UNCHANGED <<tables, supplied>>
  /\ UNCHANGED engine_vars

\* lines 116-131: one iteration of the while loop of call p
call_while(p) ==
  /\ call[p].pc = "while" /\ call[p].remaining > 0
  /\ LET c     == call[p]
         lord  == tables.SEQUENCE[((c.idx + c.step) % Len(tables.SEQUENCE)) + 1]
         years == Min(Years(tables.YEARS[lord]), c.remaining)
         end   == period_end(c.current, years)
     IN  call' = [call EXCEPT ![p] =
                    [c EXCEPT !.periods = Append(c.periods,
                                                 DashaPeriod(lord, c.current, end, years, years)),
                              !.current = end, !.remaining = c.remaining - years,
                              !.step = c.step + 1]]
  /\ UNCHANGED <<tables, supplied>>
  /\ UNCHANGED engine_vars

\* line 133: the list is returned, to the caller or to the nested call
call_while_exit(p) ==
  /\ call[p].pc = "while" /\ call[p].remaining <= 0
  /\ call' = [call EXCEPT ![p] =
                IF call[p].op = "compute_vimshottari_periods"
                THEN [call[p] EXCEPT !.pc = "done", !.answer = call[p].periods]
                ELSE [call[p] EXCEPT !.pc = "for", !.maha_next = 1]]
  /\ UNCHANGED <<tables, supplied>>
  /\ UNCHANGED engine_vars

\* lines 217-235: one iteration of the for loop of call p, appending to the
\* call's own results list (expand_period reads the same two tables)
call_for(p) ==
  /\ call[p].pc = "for" /\ call[p].maha_next <= Len(call[p].periods)
  /\ LET c      == call[p]
         period == c.periods[c.maha_next]
         added  == IF c.depth = 1 THEN <<wrap_period(period)>>
                   ELSE expand_period(period.start, period.years,
                                      SequenceIndex(period.lord), expand_level(c.depth),
                                      <<period.lord>>)
     IN  call' = [call EXCEPT ![p] =
                    [c EXCEPT !.results = c.results \o added,
                              !.maha_next = c.maha_next + 1]]
  /\ UNCHANGED <<tables, supplied>>
  /\ UNCHANGED engine_vars

\* line 237
call_for_exit(p) ==
  /\ call[p].pc = "for" /\ call[p].maha_next > Len(call[p].periods)
  /\ call' = [call EXCEPT ![p] = [call[p] EXCEPT !.pc = "done",
                                                 !.answer = call[p].results]]
  /\ UNCHANGED <<tables, supplied>>
  /\ UNCHANGED engine_vars

\* line 240: get_vimshottari_chain_at is called on the supplied list
call_chain_at(p, target) ==
  /\ call[p].pc = "idle"
  /\ call' = [call EXCEPT ![p] =
                [IdleCall EXCEPT !.pc = "scan", !.op = "get_vimshottari_chain_at",
                                 !.target = target, !.scan = 1]]
  /\ UNCHANGED <<tables, supplied>>
  /\ UNCHANGED engine_vars

\* lines 245-248: one iteration of the scan of call p, or its fall-through
call_scan(p) ==
  /\ call[p].pc = "scan"
  /\ LET c == call[p]
     IN  call' = [call EXCEPT ![p] =
                    IF c.scan > Len(supplied)
                    THEN [c EXCEPT !.pc = "done", !.answer = last_entry(supplied).lords]
                    ELSE IF supplied[c.scan].start <= c.target
                              /\ c.target < supplied[c.scan].end
                    THEN [c EXCEPT !.pc = "done", !.answer = supplied[c.scan].lords]
                    ELSE [c EXCEPT !.scan = c.scan + 1]]
  /\ supplied' = scanned_list(supplied)
  /\ UNCHANGED tables
  /\ UNCHANGED engine_vars

ConcurrentNext ==
  \/ \E p \in Calls, lon \in ConcurrentLongitudes :
       call_periods(p, "compute_vimshottari_periods", 0, lon, 0, Years(8))
  \/ \E p \in Calls, lon \in ConcurrentLongitudes, d \in 1..MaxDepth :
       call_periods(p, "compute_vimshottari_nested_periods", 0, lon, d, Years(8))
  \/ \E p \in Calls : call_while(p)
  \/ \E p \in Calls : call_while_exit(p)
  \/ \E p \in Calls : call_for(p)
  \/ \E p \in Calls : call_for_exit(p)
  \/ \E p \in Calls, t \in ConcurrentTargets : call_chain_at(p, t)
  \/ \E p \in Calls : call_scan(p)

ConcurrentSpec == Init /\ [][ConcurrentNext]_vars

\* ================================================================ claims
\* the while loop is over and compute_vimshottari_periods has handed its
\* list to its caller
PeriodsReturned == raised = "" /\ pc \in {"scan", "for", "done"} /\ periods # <<>>

RECURSIVE SumYears(_, _, _)
SumYears(list, lo, hi) ==
  IF lo > hi THEN 0 ELSE list[lo].years + SumYears(list, lo + 1, hi)

RECURSIVE SumDurations(_, _, _)
SumDurations(list, lo, hi) ==
  IF lo > hi THEN 0 ELSE timedelta(list[lo].years) + SumDurations(list, lo + 1, hi)

\* C1: for every total_years > 0, the years of all periods returned by
\* compute_vimshottari_periods sum to total_years.
C1_SumInvariant ==
  (PeriodsReturned /\ total_years > 0) =>
     SumYears(periods, 1, Len(periods)) = total_years

\* C1 witness: a returned list for a span beyond 120 years, the cycle wrapped
C1_Witness ==
  /\ PeriodsReturned /\ caller = "compute_vimshottari_periods"
  /\ total_years > Years(CycleYears)
  /\ Len(periods) > Len(VIMSHOTTARI_SEQUENCE)

\* C2: the first returned period starts at birth_datetime and every period
\* ends exactly where the next one starts.
C2_Contiguity ==
  PeriodsReturned =>
     /\ periods[1].start = birth_datetime
     /\ \A k \in 1..(Len(periods) - 1) : periods[k].end = periods[k + 1].start

\* C2 witness: a returned list of several periods for a birth other than
\* the origin of the clock
C2_Witness ==
  /\ PeriodsReturned /\ caller = "compute_vimshottari_periods"
  /\ birth_datetime # 0 /\ Len(periods) >= 3

\* compute_vimshottari_nested_periods has returned its list (and a chain
\* query may have been run on it since)
NestedReturned ==
  /\ raised = "" /\ pc = "done"
  /\ caller \in {"compute_vimshottari_nested_periods", "get_vimshottari_chain_at"}

\* leaf records below one period of level j, in a list of depth `depth`
LeavesPer(j) == Pow(Len(VIMSHOTTARI_SEQUENCE), depth - j)

\* the m-th period of level j (m counted from 0), read off the leaf list:
\* its years are those of the leaves below it, its lord the j-th lineage
\* element of its first leaf
NodeYears(j, m) == SumYears(results, m * LeavesPer(j) + 1, (m + 1) * LeavesPer(j))
NodeLord(j, m) == results[m * LeavesPer(j) + 1].lords[j]

RECURSIVE SumNodes(_, _, _)
SumNodes(j, lo, hi) == IF lo > hi THEN 0 ELSE NodeYears(j, lo) + SumNodes(j, lo + 1, hi)

LordAnswered == pc = "done" /\ caller = "get_vimshottari_lord_at"
ChainAnswered == pc = "done" /\ caller = "get_vimshottari_chain_at"

\* entries of a list whose half-open interval holds t
Hits(list, t) == {k \in 1..Len(list) : list[k].start <= t /\ t < list[k].end}

Lowest(S) == CHOOSE k \in S : \A j \in S : k <= j

\* C6: if some period of the list holds the target, the query answers with
\* the first such period in list order, and exactly one period holds it.
C6_PointQuery ==
  /\ LordAnswered =>
       LET h == Hits(periods, target_datetime)
       IN  h # {} => /\ lord_result = periods[Lowest(h)].lord
                     /\ Cardinality(h) = 1
  /\ ChainAnswered =>
       LET h == Hits(results, target_datetime)
       IN  h # {} => /\ chain_result = results[Lowest(h)].lords
                     /\ Cardinality(h) = 1

\* C7: a target at or after the last period's end is answered with the
\* last period's lord (the last record's lineage), without raising.
C7_OutOfRange ==
  /\ LordAnswered =>
       /\ raised = ""
       /\ target_datetime >= periods[Len(periods)].end =>
            lord_result = periods[Len(periods)].lord
  /\ ChainAnswered =>
       /\ raised = ""
       /\ target_datetime >= results[Len(results)].end =>
            chain_result = results[Len(results)].lords

\* C7 witness: the lord asked for 200 years after the birth, beyond the
\* 120 years the list spans, the last period not being the first
C7_Witness ==
  /\ LordAnswered /\ Len(periods) >= 9
  /\ target_datetime = birth_datetime + timedelta(Years(200))
  /\ target_datetime > periods[Len(periods)].end
  /\ lord_result # periods[1].lord

\* the lord the mansion of a longitude is assigned by cycling the sequence
MansionLord(longitude) ==
  VIMSHOTTARI_SEQUENCE[((longitude \div LonGrid) % Len(VIMSHOTTARI_SEQUENCE)) + 1]

\* C8: with d the distance into the mansion, 0 <= d < width, the balance is
\* allocation[mansion lord] * (width - d) / width, above 0 and at most the
\* allocation.
C8_Balance ==
  periods # <<>> =>
     LET d == moon_longitude % LonGrid
         a == Years(VIMSHOTTARI_YEARS[MansionLord(moon_longitude)])
         b == periods[1].balance_years
     IN  /\ b * LonGrid = a * (LonGrid - d)
         /\ 0 < b /\ b <= a

\* C8 witness: a call whose longitude lies strictly inside a mansion
C8_Witness ==
  /\ periods # <<>> /\ moon_longitude % LonGrid = LonGrid - 1
  /\ periods[1].balance_years < Years(VIMSHOTTARI_YEARS[MansionLord(moon_longitude)])

\* C9: on a mansion boundary the balance is the mansion lord's full
\* allocation, and with total_years at least that much the first period's
\* years are the full table value (7 for Ketu at longitude 0.0).
C9_Boundary ==
  (periods # <<>> /\ moon_longitude % LonGrid = 0) =>
     LET a == Years(VIMSHOTTARI_YEARS[MansionLord(moon_longitude)])
     IN  /\ periods[1].balance_years = a
         /\ total_years >= a => periods[1].years = a
         /\ (moon_longitude = 0 /\ total_years >= Years(7)) =>
               periods[1].years = Years(7)

\* C9 witness: longitude 0.0 over 120 years, the first period Ketu's
C9_Witness ==
  /\ PeriodsReturned /\ moon_longitude = 0 /\ start_lord = None
  /\ total_years = Years(CycleYears) /\ periods[1].lord = "Ketu"

Abs(x) == IF x < 0 THEN 0 - x ELSE x

TableLords == DOMAIN VIMSHOTTARI_YEARS

\* C11: a start_lord override that is not one of the 9 lords of the table
\* makes compute_vimshottari_periods raise an error that names the value,
\* before any period is built and with no list returned.
C11_UnknownLord ==
  (caller = "compute_vimshottari_periods" /\ start_lord # None
     /\ start_lord \notin TableLords) =>
     /\ pc = "done"
     /\ raised = "ValueError: Unknown Vimshottari lord: " \o start_lord
     /\ periods = <<>>

\* C11 witness: the call with the override "Pluto" has ended in the error
C11_Witness ==
  /\ caller = "compute_vimshottari_periods" /\ start_lord = "Pluto"
  /\ pc = "done" /\ raised # "" /\ total_years = Years(CycleYears)

\* C12: depth < 1 makes compute_vimshottari_nested_periods raise before
\* any top-level period is computed, and no record is returned.
C12_InvalidDepth ==
  (caller = "compute_vimshottari_nested_periods" /\ depth < 1) =>
     /\ pc = "done"
     /\ raised = "ValueError: depth must be >= 1"
     /\ periods = <<>> /\ results = <<>>

\* C12 witness: the nested call with depth 0 and otherwise valid arguments
\* has ended in the error
C12_Witness ==
  /\ caller = "compute_vimshottari_nested_periods" /\ depth = 0 /\ raised # ""
  /\ total_years = Years(CycleYears) /\ moon_longitude = 0

\* C13 as stated: total_years <= 0 makes compute_vimshottari_periods and
\* compute_vimshottari_nested_periods raise an error, and no period is
\* returned.
C13_InvalidSpan ==
  (caller \in {"compute_vimshottari_periods", "compute_vimshottari_nested_periods"}
     /\ total_years <= 0) =>
     /\ raised # ""
     /\ periods = <<>> /\ results = <<>>

\* the longitude lies outside [0, 360)
OutsideCircle(longitude) == longitude < 0 \/ longitude >= 27 * LonGrid

ValidCall ==
  /\ raised = "" /\ total_years > 0
  /\ \/ caller \in {"compute_vimshottari_periods", "get_vimshottari_lord_at"}
     \/ /\ caller \in {"compute_vimshottari_nested_periods", "get_vimshottari_chain_at"}
        /\ depth >= 1

\* C15 as stated: every period emitted for a valid input (total_years > 0,
\* depth >= 1), top-level or nested, starts strictly before it ends.
C15_StrictOrder ==
  ValidCall =>
     /\ \A k \in 1..Len(periods) : periods[k].start < periods[k].end
     /\ \A k \in 1..Len(results) : results[k].start < results[k].end

C17_MansionLords ==
  (caller = "get_vimshottari_start_lord" /\ raised = "") =>
     LET i == moon_longitude \div LonGrid
     IN  /\ lord_result = VIMSHOTTARI_SEQUENCE[(i % 9) + 1]
         /\ lord_result \in TableLords
         /\ moon_longitude = 0 => lord_result = "Ketu"

\* C17 witness: the starting lord answered for a longitude in the last
\* mansion, the 27th
C17_Witness ==
  /\ caller = "get_vimshottari_start_lord" /\ raised = ""
  /\ moon_longitude \div LonGrid = 26 /\ lord_result = "Mercury"

C19_AllocationTable ==
  (PeriodsReturned /\ moon_longitude % LonGrid = 0 /\ start_lord = None
     /\ total_years >= Years(120)) =>
     /\ TableLords = {VIMSHOTTARI_SEQUENCE[k] : k \in 1..Len(VIMSHOTTARI_SEQUENCE)}
     /\ Cardinality(TableLords) = 9
     /\ {periods[k].lord : k \in 1..9} = TableLords
     /\ \A k \in 1..9 :
          /\ periods[k].years = Years(VIMSHOTTARI_YEARS[periods[k].lord])
          /\ VIMSHOTTARI_YEARS[periods[k].lord] \in Nat \ {0}
     /\ SumYears(periods, 1, 9) = Years(120)

\* C19 witness: the list for longitude 0.0 over 120 years, one period per
\* lord
C19_Witness ==
  /\ PeriodsReturned /\ caller = "compute_vimshottari_periods"
  /\ moon_longitude = 0 /\ start_lord = None /\ total_years = Years(120)
  /\ Len(periods) = 9

\* C20: the nested call of depth 1 returns one record per top-level period
\* of compute_vimshottari_periods for the same inputs, in the same order,
\* with the same start, end and years and with lords = (lord,).
C20_DepthOne ==
  (NestedReturned /\ depth = 1) =>
     /\ Len(results) = Len(periods)
     /\ \A k \in 1..Len(results) :
          /\ results[k].start = periods[k].start
          /\ results[k].end = periods[k].end
          /\ results[k].years = periods[k].years
          /\ results[k].lords = <<periods[k].lord>>

\* C20 witness: a depth-1 list of several records, the first a partial
\* balance
C20_Witness ==
  /\ NestedReturned /\ caller = "compute_vimshottari_nested_periods" /\ depth = 1
  /\ Len(results) >= 3 /\ moon_longitude % LonGrid # 0
  /\ results[1].start < results[1].end

\* days of n years of the Gregorian calendar, which has 97 leap days in 400
\* years, to the nearest day
GregorianDays(n) == (2 * n * (400 * 365 + 97) + 400) \div 800

\* C22 as stated: the unit that turns years into a duration is the sidereal
\* year and not the Gregorian calendar year, so a first period of Rahu's
\* full 18 years, 6574.6 days long in sidereal years, does not last the
\* 6574 days of 18 Gregorian years.
C22_NotGregorian ==
  (periods # <<>> /\ periods[1].years = Years(18)) =>
     periods[1].end - periods[1].start # GregorianDays(18)

\* C23 as stated: in every nested list of depth >= 2 each record ends
\* exactly where the next one starts, also across two parents.
C23_LeafContiguity ==
  (NestedReturned /\ depth >= 2) =>
     \A i \in 1..(Len(results) - 1) : results[i].end = results[i + 1].start

\* C24 as stated: with a start_lord override and a valid span, the first
\* period's lord is the override and its years are above 0 and at most the
\* override lord's own allocation.
C24_OverrideBalance ==
  (PeriodsReturned /\ caller = "compute_vimshottari_periods" /\ start_lord # None
     /\ total_years > 0) =>
     /\ periods[1].lord = start_lord
     /\ 0 < periods[1].years
     /\ periods[1].years <= Years(VIMSHOTTARI_YEARS[start_lord])

\* C25: the first period has lord = starting lord, start = birth_datetime
\* and years = min(balance_years, total_years); when total_years <=
\* balance_years the list is exactly one period of total_years years.
C25_FirstPeriod ==
  periods # <<>> =>
     LET first == periods[1]
     IN  /\ first.lord = IF start_lord = None
                         THEN get_vimshottari_start_lord(moon_longitude)
                         ELSE start_lord
         /\ first.start = birth_datetime
         /\ first.years = IF first.balance_years <= total_years
                          THEN first.balance_years ELSE total_years
         /\ (PeriodsReturned /\ total_years <= first.balance_years) =>
               Len(periods) = 1 /\ first.years = total_years

\* C25 witness: a returned list of one period, the span lying below the
\* balance
C25_Witness ==
  /\ PeriodsReturned /\ caller = "compute_vimshottari_periods"
  /\ total_years > TinyYears /\ total_years < periods[1].balance_years
  /\ Len(periods) = 1

\* C26: period i >= 1 of the returned list (the first being period 0) has
\* lord VIMSHOTTARI_SEQUENCE[(index of the starting lord + i) mod 9]; every
\* period other than the first and the last has exactly its lord's full
\* allocation.
C26_LaterPeriods ==
  PeriodsReturned =>
     LET first_index == CHOOSE k \in 0..8 : VIMSHOTTARI_SEQUENCE[k + 1] = periods[1].lord
     IN  /\ \A i \in 1..(Len(periods) - 1) :
              periods[i + 1].lord = VIMSHOTTARI_SEQUENCE[((first_index + i) % 9) + 1]
         /\ \A i \in 1..(Len(periods) - 2) :
              periods[i + 1].years = Years(VIMSHOTTARI_YEARS[periods[i + 1].lord])

\* C26 witness: a returned list past a whole cycle whose last period was
\* shortened, begun with an override of the starting lord
C26_Witness ==
  /\ PeriodsReturned /\ caller = "compute_vimshottari_periods"
  /\ start_lord = "Sun" /\ Len(periods) > Len(VIMSHOTTARI_SEQUENCE)
  /\ periods[Len(periods)].years
       < Years(VIMSHOTTARI_YEARS[periods[Len(periods)].lord])

\* C27 as stated: unless the target is at or after the last period's end,
\* the lord or lineage answered is that of a period whose half-open
\* interval holds the target; a target before the first start is never
\* answered with the last period's.
C27_AnswerHoldsTarget ==
  /\ (LordAnswered /\ target_datetime < periods[Len(periods)].end) =>
        \E k \in Hits(periods, target_datetime) : lord_result = periods[k].lord
  /\ (ChainAnswered /\ target_datetime < results[Len(results)].end) =>
        \E k \in Hits(results, target_datetime) : chain_result = results[k].lords

\* C28 as stated, for k = 1: for a target inside the generated span, the
\* chain from the depth-1 list, (lord of the top-level period holding the
\* target), is a prefix of the chain from the deeper list.
C28_ChainPrefix ==
  (ChainAnswered /\ depth >= 2 /\ periods[1].start <= target_datetime
     /\ target_datetime < periods[Len(periods)].end) =>
     \A k \in Hits(periods, target_datetime) : chain_result[1] = periods[k].lord

C30_PeriodCount ==
  (PeriodsReturned /\ total_years = Years(120)) =>
     LET last == periods[Len(periods)]
     IN  IF moon_longitude % LonGrid = 0
         THEN /\ Len(periods) = 9
              /\ (NestedReturned /\ depth = 2) => Len(results) = 81
         ELSE /\ Len(periods) = 10
              /\ last.lord = periods[1].lord
              /\ periods[1].years + last.years = Years(VIMSHOTTARI_YEARS[last.lord])
              /\ (NestedReturned /\ depth = 2) => Len(results) = 90

\* the answer the call in record c gives when it runs on its own
answer_alone(c) ==
  CASE c.op = "compute_vimshottari_periods" -> periods_alone(c.birth, c.longitude, c.total)
    [] c.op = "compute_vimshottari_nested_periods" ->
         nested_alone(c.birth, c.longitude, c.depth, c.total)
    [] OTHER -> chain_alone(c.target, SuppliedList)

\* C21: no operation writes state another call can read: the two tables and
\* a caller-supplied list are left as they were, and under every
\* interleaving each call answers what it answers when run alone.
C21_NoSharedWrites ==
  /\ tables = [SEQUENCE |-> VIMSHOTTARI_SEQUENCE, YEARS |-> VIMSHOTTARI_YEARS]
  /\ supplied = SuppliedList
  /\ \A p \in Calls : call[p].pc = "done" => call[p].answer = answer_alone(call[p])

\* C21 witness: a nested call and a chain query that fell through the
\* whole supplied list have both answered
C21_Witness ==
  /\ call[1].pc = "done" /\ call[1].op = "compute_vimshottari_nested_periods"
  /\ call[1].depth = 2 /\ Len(call[1].answer) >= 2 * Len(VIMSHOTTARI_SEQUENCE)
  /\ call[2].pc = "done" /\ call[2].op = "get_vimshottari_chain_at"
  /\ call[2].target = SuppliedList[Len(SuppliedList)].end

====
